---- MODULE Spec2Model ----
(***************************************************************************)
(* histogram.py: a Monte Carlo experiment.  Each trial draws a training    *)
(* set from Uniform[-1, 1), takes the ERM threshold a (the least sample    *)
(* that is >= 0, or 1.0), and appends the risk gap a/2 to a list.  After   *)
(* the loop the script computes the list's 95th percentile and a closed    *)
(* form PAC bound, prints both and shows a histogram.                      *)
(*                                                                         *)
(* Real numbers are fixed-point integers: the real x is the integer        *)
(* x * One.  Products and quotients round to the nearest unit.             *)
(***************************************************************************)
EXTENDS Integers, Sequences, FiniteSets, TLC

\* The float 1.0 (the fallback threshold of line 28), and so the fixed-point unit.
One == 10000

\* np.e, to four decimals.
E == 27183

\* delta = 0.05
delta == 500

\* The shipped sample size.
NSamples == 200

\* Bounds of the model: the loop runs at most MaxSimulations trials, a training
\* set varies freely in its first MaxSamples entries, h ranges over 1..MaxH, and
\* a draw is one of GridSteps evenly spaced values.
MaxSimulations == 3
MaxSamples == 2
MaxH == 2
GridSteps == 4

\* An unassigned Python name.
None == "None"

VARIABLES n_simulations, n_samples, h,
          pc, it, S_x, positive_examples, a, true_risk, empirical_risk,
          risk_differences, quantile_95,
          term1, term2, term3, complexity_term, bound_val, out

params == <<n_simulations, n_samples, h>>
trial == <<S_x, positive_examples, a, true_risk, empirical_risk>>
analysis == <<quantile_95, term1, term2, term3, complexity_term, bound_val>>
vars == <<n_simulations, n_samples, h, pc, it, S_x, positive_examples, a,
          true_risk, empirical_risk, risk_differences, quantile_95,
          term1, term2, term3, complexity_term, bound_val, out>>

----------------------------------------------------------------------------
(* Float arithmetic in fixed point *)

\* x * y
FMul(x, y) == (x * y + One \div 2) \div One

\* x / y, y > 0
FDiv(x, y) == (x * One + y \div 2) \div y

\* The scale the logarithm is summed at, and the scale of its constant ln 2.
Fine == 10 * One
Big == One * One

FMulFine(x, y) == (x * y + Fine \div 2) \div Fine

\* The sum over odd k of 1 / (k 3^k) (atanh 1/3) at scale Big, p3 the power 3^k.
RECURSIVE ThirdSum(_, _, _)
ThirdSum(p3, k, acc) ==
    IF Big \div p3 = 0 THEN acc
    ELSE ThirdSum(p3 * 9, k + 2, acc + (Big \div p3) \div k)

\* ln 2 = 2 atanh(1/3), at scale Big.
Ln2Big == 2 * ThirdSum(3, 1, 0)

\* The sum z + z^3/3 + z^5/5 + ... (atanh z) at scale Fine, pw the current
\* odd power of z.
RECURSIVE AtanhSum(_, _, _, _)
AtanhSum(pw, z2, k, acc) ==
    IF pw = 0 THEN acc
    ELSE AtanhSum(FMulFine(pw, z2), z2, k + 2, acc + (2 * pw + k) \div (2 * k))

\* atanh(num / den) at scale Fine, for 0 <= num / den < 1/3; the fraction is
\* first brought into the range the quotient is computed in.
RECURSIVE LnMantissa(_, _)
LnMantissa(num, den) ==
    IF den > 6 * One THEN LnMantissa(num \div 2, den \div 2)
    ELSE LET z == (num * Fine + den \div 2) \div den
         IN  AtanhSum(z, FMulFine(z, z), 1, 0)

\* ln x for x >= 1: with x = d m, d = 2^k and 1 <= m < 2,
\* ln x = k ln 2 + 2 atanh((m - 1) / (m + 1)).
RECURSIVE LnReduce(_, _, _)
LnReduce(x, d, k) ==
    IF x >= 2 * d * One THEN LnReduce(x, 2 * d, k + 1)
    ELSE LET fine == (k * Ln2Big + (Big \div Fine) \div 2) \div (Big \div Fine)
                         + 2 * LnMantissa(x - d * One, x + d * One)
         IN  (fine + (Fine \div One) \div 2) \div (Fine \div One)

\* np.log
np_log(x) == LnReduce(x, 1, 0)

\* The integer square root, by Newton's iteration from above.
RECURSIVE ISqrt(_, _)
ISqrt(x, r) ==
    LET nxt == (r + x \div r) \div 2
    IN  IF nxt >= r THEN r ELSE ISqrt(x, nxt)

\* np.sqrt, to the nearest unit
np_sqrt(x) ==
    IF x = 0 THEN 0
    ELSE LET r == ISqrt(x * One, x * One)
         IN  IF x * One - r * r > r THEN r + 1 ELSE r

----------------------------------------------------------------------------
(* The random source *)

\* The values a draw of np.random.uniform(-1, 1) takes in the model: the
\* half-open interval [-1, 1) cut in GridSteps equal steps, each step's least
\* value (-1.0 is one of them, 1.0 is not).
Grid == {(2 * k * One) \div GridSteps - One : k \in 0..(GridSteps - 1)}

Min2(x, y) == IF x < y THEN x ELSE y

\* np.random.uniform(-1, 1, n): the arrays of length n the model draws.  The
\* first MaxSamples entries are free; a longer array repeats them in turn.
uniform(n) ==
    LET k == Min2(n, MaxSamples)
    IN  { [i \in 1..n |-> p[((i - 1) % k) + 1]] : p \in [1..k -> Grid] }

\* The sizes of training set the model runs the script with: the small ones
\* and the shipped one.
SampleSizes == (1..MaxSamples) \cup {NSamples}

\* The arrays drawn, by size.
Draws == [n \in SampleSizes |-> uniform(n)]

----------------------------------------------------------------------------
(* One trial *)

\* S_x[S_x >= 0]
NonNegative(x) == x >= 0
select_positive(S) == SelectSeq(S, NonNegative)

\* np.min of a non-empty array; np.min of an empty array raises ValueError.
np_min(arr) ==
    IF Len(arr) = 0 THEN [raised |-> "ValueError"]
    ELSE [raised |-> None,
          value |-> CHOOSE m \in {arr[i] : i \in 1..Len(arr)} :
                        \A i \in 1..Len(arr) : m <= arr[i]]

\* Mutant of erm: the first positive example instead of the least.
erm_first(pos) == IF Len(pos) > 0 THEN [raised |-> None, value |-> pos[1]]
                  ELSE [raised |-> None, value |-> One]

\* Mutant of erm: no guard for the empty subset.
erm_unguarded(pos) == np_min(pos)

\* lines 25-28: the least positive example, or 1.0 when there is none.
erm(pos) == IF Len(pos) > 0 THEN np_min(pos) ELSE [raised |-> None, value |-> One]

\* Mutant of risk_of: the division by 2 forgotten.
risk_undivided(av) == av

\* line 32: a / 2.0
risk_of(av) == FDiv(av, 2 * One)

----------------------------------------------------------------------------
(* np.percentile, method "linear" *)

RECURSIVE Insert(_, _)
Insert(s, x) ==
    IF s = <<>> THEN <<x>>
    ELSE IF x <= Head(s) THEN <<x>> \o s
    ELSE <<Head(s)>> \o Insert(Tail(s), x)

RECURSIVE SortAsc(_)
SortAsc(s) == IF s = <<>> THEN <<>> ELSE Insert(SortAsc(Tail(s)), Head(s))

\* Mutant of ordered: the values are not sorted.
ordered_unsorted(arr) == arr

\* The array the percentile interpolates in: the values in ascending order.
ordered(arr) == SortAsc(arr)

\* Mutant of lerp: the step from hi taken with the wrong sign.
lerp_wrong_sign(lo, hi, t) ==
    IF t >= One \div 2 THEN hi + FMul(hi - lo, One - t)
    ELSE lo + FMul(hi - lo, t)

\* numpy's _lerp: lo + (hi - lo) t, taken from hi's side when t >= 0.5.
lerp(lo, hi, t) ==
    IF t >= One \div 2 THEN hi - FMul(hi - lo, One - t)
    ELSE lo + FMul(hi - lo, t)

\* np.percentile(arr, q): interpolate the ordered values at the virtual index
\* (q / 100) (N - 1); a neighbour past the end is clipped to the last entry.
np_percentile(arr, q) ==
    LET N == Len(arr)
        sorted == ordered(arr)
        quantile == (q * One) \div 100
        virtual == (N - 1) * quantile
        previous == virtual \div One
        gamma == virtual - previous * One
        nxt == Min2(previous + 1, N - 1)
    IN  lerp(sorted[previous + 1], sorted[nxt + 1], gamma)

----------------------------------------------------------------------------
(* The bound, lines 50-58 *)

\* Mutant of term1_of: the number of risk gaps taken for the sample size.
term1_of_gaps(hh, n) == hh * np_log(Len(risk_differences) * One)

term1_of(hh, n) == hh * np_log(n * One)
\* Mutant of term2_of: h does not multiply ln 2e.
term2_without_h(hh) == np_log(FMul(2 * One, E))

term2_of(hh) == hh * np_log(FMul(2 * One, E))
term3_of(d) == np_log(FDiv(2 * One, d))
complexity_of(t1, t2, t3) == t1 + t2 + t3
bound_of(n, c) == 2 * np_sqrt(FMul(FDiv(2 * One, n * One), c))

----------------------------------------------------------------------------
(* The script *)

Init ==
    /\ n_simulations \in 1..MaxSimulations
    /\ n_samples \in SampleSizes
    /\ h \in 1..MaxH
    /\ pc = "start"
    /\ it = 0
    /\ S_x = None
    /\ positive_examples = None
    /\ a = None
    /\ true_risk = None
    /\ empirical_risk = None
    /\ risk_differences = <<>>
    /\ quantile_95 = None
    /\ term1 = None
    /\ term2 = None
    /\ term3 = None
    /\ complexity_term = None
    /\ bound_val = None
    /\ out = <<>>

\* line 14
PrintStart ==
    /\ pc = "start"
    /\ out' = Append(out, "progress")
    /\ pc' = "for"
    /\ UNCHANGED <<params, it, trial, risk_differences, analysis>>

\* Mutant of ForNext: the loop runs one trial too many.
ForNextOneMore ==
    /\ pc = "for"
    /\ IF it <= n_simulations
          THEN it' = it + 1 /\ pc' = "draw"
          ELSE it' = it /\ pc' = "percentile"
    /\ UNCHANGED <<params, trial, risk_differences, analysis, out>>

\* line 16: range(n_simulations) yields its next value, or the loop ends.
ForNext ==
    /\ pc = "for"
    /\ IF it < n_simulations
          THEN it' = it + 1 /\ pc' = "draw"
          ELSE it' = it /\ pc' = "percentile"
    /\ UNCHANGED <<params, trial, risk_differences, analysis, out>>

\* lines 18-23: the training set is drawn and its positive examples selected.
Draw ==
    /\ pc = "draw"
    /\ S_x' \in Draws[n_samples]
    /\ positive_examples' = select_positive(S_x')
    /\ pc' = "erm"
    /\ UNCHANGED <<params, it, a, true_risk, empirical_risk,
                   risk_differences, analysis, out>>

\* lines 25-28; an exception ends the script.
Erm ==
    /\ pc = "erm"
    /\ LET r == erm(positive_examples)
       IN  IF r.raised = None
             THEN a' = r.value /\ pc' = "risk"
             ELSE a' = a /\ pc' = "aborted"
    /\ UNCHANGED <<params, it, S_x, positive_examples, true_risk, empirical_risk,
                   risk_differences, analysis, out>>

\* lines 32-35
Risk ==
    /\ pc = "risk"
    /\ true_risk' = risk_of(a)
    /\ empirical_risk' = 0
    /\ pc' = "append"
    /\ UNCHANGED <<params, it, S_x, positive_examples, a,
                   risk_differences, analysis, out>>

\* line 38
AppendRisk ==
    /\ pc = "append"
    /\ risk_differences' = Append(risk_differences, true_risk - empirical_risk)
    /\ pc' = "for"
    /\ UNCHANGED <<params, it, trial, analysis, out>>

\* lines 40-46: the list becomes an array of the same values, and its 95th
\* percentile is taken.
Percentile ==
    /\ pc = "percentile"
    /\ risk_differences' = [i \in 1..Len(risk_differences) |-> risk_differences[i]]
    /\ quantile_95' = np_percentile(risk_differences', 95)
    /\ pc' = "bound"
    /\ UNCHANGED <<params, it, trial,
                   term1, term2, term3, complexity_term, bound_val, out>>

\* lines 50-58: the three terms, their sum and the bound.
Bound ==
    /\ pc = "bound"
    /\ term1' = term1_of(h, n_samples)
    /\ term2' = term2_of(h)
    /\ term3' = term3_of(delta)
    /\ complexity_term' = complexity_of(term1', term2', term3')
    /\ bound_val' = bound_of(n_samples, complexity_term')
    /\ pc' = "print"
    /\ UNCHANGED <<params, it, trial, risk_differences, quantile_95, out>>

\* Print statements that follow one another: their lines reach standard
\* output in the order given.
PrintLines(at, lines, then) ==
    /\ pc = at
    /\ out' = out \o lines
    /\ pc' = then
    /\ UNCHANGED <<params, it, trial, risk_differences, analysis>>

\* Mutant of PrintResults: the bound's line is printed before the quantile's.
PrintBoundFirst ==
    PrintLines("print", <<"separator", "bound", "quantile", "separator">>, "plot")

\* lines 60-63
PrintResults ==
    PrintLines("print", <<"separator", "quantile", "bound", "separator">>, "plot")

\* lines 66-85: the figure is built and shown.
Plot == PrintLines("plot", <<"figure">>, "done")

Next ==
    \/ PrintStart
    \/ ForNext
    \/ Draw
    \/ Erm
    \/ Risk
    \/ AppendRisk
    \/ Percentile
    \/ Bound
    \/ PrintResults
    \/ Plot

Spec == Init /\ [][Next]_vars

----------------------------------------------------------------------------
(* Where the script is *)

TrialPcs == {"draw", "erm", "risk", "append"}

\* Trials whose risk gap has been appended.
CompletedTrials == IF pc \in TrialPcs \cup {"aborted"} THEN it - 1 ELSE it

\* The trial's risk gap has just been appended: S_x, a and the last risk gap
\* belong to the same trial, and the loop is at its head, in its next trial's
\* first statement, or over.
TrialDone ==
    \/ pc \in {"for", "percentile"} /\ it >= 1
    \/ pc = "draw" /\ it >= 2

\* The trial's threshold has just been computed: S_x and a belong to the same trial.
ErmDone == pc \in {"risk", "append"} \/ TrialDone

LoopDone == pc \notin TrialPcs \cup {"start", "for", "aborted"}
QuantileDone == LoopDone /\ pc # "percentile"
BoundDone == QuantileDone /\ pc # "bound"

Last(s) == s[Len(s)]
Range(s) == {s[i] : i \in 1..Len(s)}
NonNegativeDraws == {v \in Range(S_x) : v >= 0}
SetMin(S) == CHOOSE m \in S : \A v \in S : m <= v
SetMax(S) == CHOOSE m \in S : \A v \in S : m >= v
Near(x, y, tol) == x - y <= tol /\ y - x <= tol

----------------------------------------------------------------------------
(* C1 *)

\* C1 (as claimed): in every trial 0 < a <= 1, and every risk gap appended
\* satisfies 0 < gap <= 0.5; a training set that holds 0 does not give a = 0.
C1_ThresholdStrictlyPositive ==
    /\ ErmDone => 0 < a /\ a <= One
    /\ \A i \in 1..Len(risk_differences) :
          0 < risk_differences[i] /\ risk_differences[i] <= One \div 2

----------------------------------------------------------------------------
(* C2 *)

\* C2: when a training set holds a value >= 0, a is the least of exactly its
\* values >= 0, and the risk gap appended for the trial is a / 2 (to the
\* rounding of one division).
C2_ErmIsLeastNonNegative ==
    ErmDone =>
        LET nn == NonNegativeDraws
        IN  nn # {} =>
              /\ a \in nn
              /\ \A v \in nn : a <= v
              /\ TrialDone =>
                    /\ Near(2 * Last(risk_differences), a, 1)
                    /\ Len(risk_differences) = CompletedTrials

\* A trial of the full-size training set that drew 0.5 before 0 is over.
C2_Witness ==
    /\ TrialDone
    /\ n_samples = NSamples
    /\ S_x[1] = One \div 2
    /\ S_x[2] = 0
    /\ a = 0

----------------------------------------------------------------------------
(* C3 *)

\* C3: a training set whose draws are all < 0 does not fail the trial: a is
\* 1.0, the risk gap appended is exactly 0.5, and the loop goes on.
C3_EmptySubsetFallback ==
    /\ pc # "aborted"
    /\ ErmDone /\ (\A i \in 1..Len(S_x) : S_x[i] < 0) =>
          /\ a = One
          /\ TrialDone =>
                /\ Last(risk_differences) = One \div 2
                /\ Len(risk_differences) = CompletedTrials

\* The trial after an all-negative training set of full size has begun.
C3_Witness ==
    /\ pc = "draw"
    /\ it >= 2
    /\ n_samples = NSamples
    /\ NonNegativeDraws = {}
    /\ Last(risk_differences) = One \div 2

----------------------------------------------------------------------------
(* C4 *)

\* C4 (as claimed): for n_simulations >= 2 and risk gaps that are not all
\* equal, the 95th percentile lies strictly between the least and the greatest.
C4_QuantileStrictlyInside ==
    QuantileDone /\ Len(risk_differences) >= 2
                 /\ Cardinality(Range(risk_differences)) >= 2 =>
        /\ SetMin(Range(risk_differences)) < quantile_95
        /\ quantile_95 < SetMax(Range(risk_differences))

\* C4 (amended): the 95th percentile lies between the least and the greatest
\* risk gap, both included.
C4_QuantileWithinRange ==
    QuantileDone =>
        /\ SetMin(Range(risk_differences)) <= quantile_95
        /\ quantile_95 <= SetMax(Range(risk_differences))

\* The percentile of two distinct risk gaps lies strictly between them.
C4_Witness ==
    /\ QuantileDone
    /\ Len(risk_differences) = 2
    /\ risk_differences[1] # risk_differences[2]
    /\ SetMin(Range(risk_differences)) < quantile_95
    /\ quantile_95 < SetMax(Range(risk_differences))

----------------------------------------------------------------------------
(* C5 *)

\* The closed form of the bound, of n_samples, h and delta alone.
ClosedFormBound(n, hh, d) ==
    2 * np_sqrt(FMul(FDiv(2 * One, n * One),
                     hh * np_log(n * One) + hh * np_log(FMul(2 * One, E))
                        + np_log(FDiv(2 * One, d))))

\* C5: the bound is a function of (n_samples, h, delta) only: whatever was
\* drawn, whatever the risk gaps and however many trials ran, the bound is
\* the one value the closed form gives for these three.
C5_BoundDependsOnParametersOnly ==
    BoundDone => bound_val = ClosedFormBound(n_samples, h, delta)

\* The bound is computed after trials that gave different risk gaps.
C5_Witness ==
    /\ BoundDone
    /\ Len(risk_differences) >= 2
    /\ Cardinality(Range(risk_differences)) >= 2
    /\ n_samples # Len(risk_differences)

----------------------------------------------------------------------------
(* C6 *)

FixedConfiguration == n_samples = NSamples /\ h = 1 /\ delta = 500

\* C6 (as claimed): with n_samples = 200, h = 1, delta = 0.05 the bound is
\* about 0.9244.
C6_BoundIsAbout09244 ==
    BoundDone /\ FixedConfiguration => Near(bound_val, 9244, 20)

\* C6 (amended): with n_samples = 200 and delta = 0.05 the terms are
\* h ln 200 (ln 200 = 5.2983), h ln 2e (ln 2e = 1.6931) and ln 40 = 3.6889,
\* the complexity term is their sum, and for h = 1 the bound
\* 2 sqrt((2/200) 10.6803) is about 0.6536.
C6_BoundIsAbout06536 ==
    BoundDone /\ n_samples = NSamples /\ delta = 500 =>
        /\ Near(term1, h * 52983, 2 * h)
        /\ Near(term2, h * 16931, 2 * h)
        /\ Near(term3, 36889, 2)
        /\ complexity_term = term1 + term2 + term3
        /\ h = 1 => Near(bound_val, 6536, 2)

\* The bound of the shipped configuration has been computed.
C6_Witness == BoundDone /\ FixedConfiguration

----------------------------------------------------------------------------
(* C7 *)

IsPrefix(s, t) == Len(s) <= Len(t) /\ \A i \in 1..Len(s) : s[i] = t[i]

\* C7: each trial appends exactly one risk gap: the list is always as long as
\* the number of completed trials, a step either leaves the list alone or
\* appends one value to it (no value already appended changes or goes), and
\* after the loop the list holds exactly n_simulations values.
C7_OneGapPerTrial ==
    /\ [](Len(risk_differences) = CompletedTrials)
    /\ [](LoopDone => Len(risk_differences) = n_simulations)
    /\ [][/\ IsPrefix(risk_differences, risk_differences')
          /\ Len(risk_differences') <= Len(risk_differences) + 1]_vars

\* The script has ended after the greatest number of trials.
C7_Witness ==
    /\ pc = "done"
    /\ n_simulations = MaxSimulations
    /\ Len(risk_differences) = MaxSimulations

----------------------------------------------------------------------------
(* C8 *)

ExpectedOutput ==
    <<"progress", "separator", "quantile", "bound", "separator", "figure">>

\* C8 (as claimed): the output events occur in order, each once, and all of
\* them only after all n_simulations trials have completed.
C8_AllOutputAfterTrials ==
    /\ IsPrefix(out, ExpectedOutput)
    /\ pc = "done" => out = ExpectedOutput
    /\ out # <<>> => it = n_simulations /\ Len(risk_differences) = n_simulations

\* C8 (amended): the output events occur in order, each once; the progress
\* line is printed before the first trial, and everything after it only
\* after all n_simulations trials have completed.
C8_OutputInOrder ==
    /\ IsPrefix(out, ExpectedOutput)
    /\ pc = "done" => out = ExpectedOutput
    /\ pc # "start" => Len(out) >= 1
    /\ Len(out) >= 2 => it = n_simulations /\ Len(risk_differences) = n_simulations
    /\ ~LoopDone => Len(out) <= 1

\* The figure has been shown after more than one trial.
C8_Witness ==
    /\ pc = "done"
    /\ out = ExpectedOutput
    /\ n_simulations >= 2

----------------------------------------------------------------------------
(* C9 *)

\* The value of 0-based rank k among the values of arr, by counting.
OrderStatistic(arr, k) ==
    CHOOSE v \in Range(arr) :
        /\ Cardinality({i \in 1..Len(arr) : arr[i] < v}) <= k
        /\ k < Cardinality({i \in 1..Len(arr) : arr[i] <= v})

IndexPermutations(n) == {p \in [1..n -> 1..n] : \A i \in 1..n : \E j \in 1..n : p[j] = i}

\* The permutations of the indices of a list of risk gaps, by its length.
Rearrangements == [n \in 1..MaxSimulations |-> IndexPermutations(n)]

\* C9: the quantile line 46 has just computed is the linear interpolation of
\* the sorted risk gaps at rank 0.95 (N - 1), that is, with r = 95 (N - 1),
\* between the values of ranks r div 100 and r div 100 + 1 at the fraction
\* (r mod 100) / 100 (to the rounding of one product, half a unit); and every
\* permutation of the risk gaps has the same percentile.
C9_QuantileIsRankInterpolation ==
    pc = "bound" =>
        LET N == Len(risk_differences)
            r == 95 * (N - 1)
            lo == OrderStatistic(risk_differences, r \div 100)
            hi == OrderStatistic(risk_differences, Min2(r \div 100 + 1, N - 1))
        IN  /\ Near(100 * quantile_95, 100 * lo + (r % 100) * (hi - lo), 50)
            /\ \A p \in Rearrangements[N] :
                  np_percentile([i \in 1..N |-> risk_differences[p[i]]], 95)
                      = quantile_95

\* The percentile of three risk gaps that were not appended in ascending order.
C9_Witness ==
    /\ pc = "bound"
    /\ Len(risk_differences) = 3
    /\ risk_differences[1] > risk_differences[2]
    /\ risk_differences[2] < risk_differences[3]

----------------------------------------------------------------------------
(* C10 *)

\* C10: with n_samples = 200, h = 1, delta = 0.05, whatever is drawn, every
\* risk gap and the 95% quantile are at most 0.5, and the quantile is
\* strictly below the bound.
C10_QuantileBelowBound ==
    FixedConfiguration =>
        /\ \A i \in 1..Len(risk_differences) : risk_differences[i] <= One \div 2
        /\ QuantileDone => quantile_95 <= One \div 2
        /\ BoundDone => quantile_95 < bound_val /\ One \div 2 < bound_val

\* The shipped configuration ends with the quantile at its greatest, 0.5.
C10_Witness ==
    /\ pc = "done"
    /\ FixedConfiguration
    /\ Len(risk_differences) >= 2
    /\ quantile_95 = One \div 2

====
